---------------------------- MODULE Spec2Model ----------------------------
(***************************************************************************)
(* A model of convert.py: the cricket statistics conversion pipeline.      *)
(*                                                                         *)
(* Text is modelled as a sequence of characters, so that split, strip,     *)
(* lower, the regular expressions and the numeric parsing are computed     *)
(* character by character as the code computes them.  An ASCII character   *)
(* is the one-character string that holds it; a character beyond ASCII,    *)
(* which a string of this language cannot hold, is the string that names   *)
(* its code point, such as "U+00A0".                                       *)
(*                                                                         *)
(* Numbers are Python's: an int, or a float with the value of the IEEE     *)
(* double, kept as its whole part and the binary digits of its fraction,   *)
(* sixteen to a group.  Every float operation gives the exact result       *)
(* rounded to 53 significant binary digits, a tie to the even one.  No     *)
(* value of the program is negative, since clean_numeric_value drops the   *)
(* sign; whole parts stay below 2^31.                                      *)
(***************************************************************************)
EXTENDS Integers, Sequences, FiniteSets, TLC

VARIABLES
    arg,            \* the argument(s) of the function under study
    result,         \* what the function returned ("none" before the call)
    cur,            \* index of the source file the ingestion loop is at
    phase,          \* position of process_cricket_data
    df,             \* the rows of the current file iterated so far
    nrows,          \* number of rows read so far in the run
    lastEvent,      \* kind of the last diagnostic printed
    players_data,   \* the accumulator map: trimmed name -> category -> format -> row
    order,          \* insertion order of the keys of players_data
    idx,            \* position of the per-player loop in `order`
    failed,         \* players whose processing raised
    final_players   \* the output list

vars == <<arg, result, cur, phase, df, nrows, lastEvent, players_data,
          order, idx, failed, final_players>>

-----------------------------------------------------------------------------
(* Text helpers: Python str methods on sequences of characters.            *)

\* The decimal digits of Unicode (category Nd), one row per script: the
\* character at position v + 1 of a row is the digit of value v.  These are
\* the characters \d matches and int() and float() read.
DigitRows == <<
    <<"0", "1", "2", "3", "4", "5", "6", "7", "8", "9">>,
    <<"U+0660", "U+0661", "U+0662", "U+0663", "U+0664", "U+0665", "U+0666", "U+0667", "U+0668", "U+0669">>,
    <<"U+06F0", "U+06F1", "U+06F2", "U+06F3", "U+06F4", "U+06F5", "U+06F6", "U+06F7", "U+06F8", "U+06F9">>,
    <<"U+07C0", "U+07C1", "U+07C2", "U+07C3", "U+07C4", "U+07C5", "U+07C6", "U+07C7", "U+07C8", "U+07C9">>,
    <<"U+0966", "U+0967", "U+0968", "U+0969", "U+096A", "U+096B", "U+096C", "U+096D", "U+096E", "U+096F">>,
    <<"U+09E6", "U+09E7", "U+09E8", "U+09E9", "U+09EA", "U+09EB", "U+09EC", "U+09ED", "U+09EE", "U+09EF">>,
    <<"U+0A66", "U+0A67", "U+0A68", "U+0A69", "U+0A6A", "U+0A6B", "U+0A6C", "U+0A6D", "U+0A6E", "U+0A6F">>,
    <<"U+0AE6", "U+0AE7", "U+0AE8", "U+0AE9", "U+0AEA", "U+0AEB", "U+0AEC", "U+0AED", "U+0AEE", "U+0AEF">>,
    <<"U+0B66", "U+0B67", "U+0B68", "U+0B69", "U+0B6A", "U+0B6B", "U+0B6C", "U+0B6D", "U+0B6E", "U+0B6F">>,
    <<"U+0BE6", "U+0BE7", "U+0BE8", "U+0BE9", "U+0BEA", "U+0BEB", "U+0BEC", "U+0BED", "U+0BEE", "U+0BEF">>,
    <<"U+0C66", "U+0C67", "U+0C68", "U+0C69", "U+0C6A", "U+0C6B", "U+0C6C", "U+0C6D", "U+0C6E", "U+0C6F">>,
    <<"U+0CE6", "U+0CE7", "U+0CE8", "U+0CE9", "U+0CEA", "U+0CEB", "U+0CEC", "U+0CED", "U+0CEE", "U+0CEF">>,
    <<"U+0D66", "U+0D67", "U+0D68", "U+0D69", "U+0D6A", "U+0D6B", "U+0D6C", "U+0D6D", "U+0D6E", "U+0D6F">>,
    <<"U+0DE6", "U+0DE7", "U+0DE8", "U+0DE9", "U+0DEA", "U+0DEB", "U+0DEC", "U+0DED", "U+0DEE", "U+0DEF">>,
    <<"U+0E50", "U+0E51", "U+0E52", "U+0E53", "U+0E54", "U+0E55", "U+0E56", "U+0E57", "U+0E58", "U+0E59">>,
    <<"U+0ED0", "U+0ED1", "U+0ED2", "U+0ED3", "U+0ED4", "U+0ED5", "U+0ED6", "U+0ED7", "U+0ED8", "U+0ED9">>,
    <<"U+0F20", "U+0F21", "U+0F22", "U+0F23", "U+0F24", "U+0F25", "U+0F26", "U+0F27", "U+0F28", "U+0F29">>,
    <<"U+1040", "U+1041", "U+1042", "U+1043", "U+1044", "U+1045", "U+1046", "U+1047", "U+1048", "U+1049">>,
    <<"U+1090", "U+1091", "U+1092", "U+1093", "U+1094", "U+1095", "U+1096", "U+1097", "U+1098", "U+1099">>,
    <<"U+17E0", "U+17E1", "U+17E2", "U+17E3", "U+17E4", "U+17E5", "U+17E6", "U+17E7", "U+17E8", "U+17E9">>,
    <<"U+1810", "U+1811", "U+1812", "U+1813", "U+1814", "U+1815", "U+1816", "U+1817", "U+1818", "U+1819">>,
    <<"U+1946", "U+1947", "U+1948", "U+1949", "U+194A", "U+194B", "U+194C", "U+194D", "U+194E", "U+194F">>,
    <<"U+19D0", "U+19D1", "U+19D2", "U+19D3", "U+19D4", "U+19D5", "U+19D6", "U+19D7", "U+19D8", "U+19D9">>,
    <<"U+1A80", "U+1A81", "U+1A82", "U+1A83", "U+1A84", "U+1A85", "U+1A86", "U+1A87", "U+1A88", "U+1A89">>,
    <<"U+1A90", "U+1A91", "U+1A92", "U+1A93", "U+1A94", "U+1A95", "U+1A96", "U+1A97", "U+1A98", "U+1A99">>,
    <<"U+1B50", "U+1B51", "U+1B52", "U+1B53", "U+1B54", "U+1B55", "U+1B56", "U+1B57", "U+1B58", "U+1B59">>,
    <<"U+1BB0", "U+1BB1", "U+1BB2", "U+1BB3", "U+1BB4", "U+1BB5", "U+1BB6", "U+1BB7", "U+1BB8", "U+1BB9">>,
    <<"U+1C40", "U+1C41", "U+1C42", "U+1C43", "U+1C44", "U+1C45", "U+1C46", "U+1C47", "U+1C48", "U+1C49">>,
    <<"U+1C50", "U+1C51", "U+1C52", "U+1C53", "U+1C54", "U+1C55", "U+1C56", "U+1C57", "U+1C58", "U+1C59">>,
    <<"U+A620", "U+A621", "U+A622", "U+A623", "U+A624", "U+A625", "U+A626", "U+A627", "U+A628", "U+A629">>,
    <<"U+A8D0", "U+A8D1", "U+A8D2", "U+A8D3", "U+A8D4", "U+A8D5", "U+A8D6", "U+A8D7", "U+A8D8", "U+A8D9">>,
    <<"U+A900", "U+A901", "U+A902", "U+A903", "U+A904", "U+A905", "U+A906", "U+A907", "U+A908", "U+A909">>,
    <<"U+A9D0", "U+A9D1", "U+A9D2", "U+A9D3", "U+A9D4", "U+A9D5", "U+A9D6", "U+A9D7", "U+A9D8", "U+A9D9">>,
    <<"U+A9F0", "U+A9F1", "U+A9F2", "U+A9F3", "U+A9F4", "U+A9F5", "U+A9F6", "U+A9F7", "U+A9F8", "U+A9F9">>,
    <<"U+AA50", "U+AA51", "U+AA52", "U+AA53", "U+AA54", "U+AA55", "U+AA56", "U+AA57", "U+AA58", "U+AA59">>,
    <<"U+ABF0", "U+ABF1", "U+ABF2", "U+ABF3", "U+ABF4", "U+ABF5", "U+ABF6", "U+ABF7", "U+ABF8", "U+ABF9">>,
    <<"U+FF10", "U+FF11", "U+FF12", "U+FF13", "U+FF14", "U+FF15", "U+FF16", "U+FF17", "U+FF18", "U+FF19">>,
    <<"U+104A0", "U+104A1", "U+104A2", "U+104A3", "U+104A4", "U+104A5", "U+104A6", "U+104A7", "U+104A8", "U+104A9">>,
    <<"U+10D30", "U+10D31", "U+10D32", "U+10D33", "U+10D34", "U+10D35", "U+10D36", "U+10D37", "U+10D38", "U+10D39">>,
    <<"U+11066", "U+11067", "U+11068", "U+11069", "U+1106A", "U+1106B", "U+1106C", "U+1106D", "U+1106E", "U+1106F">>,
    <<"U+110F0", "U+110F1", "U+110F2", "U+110F3", "U+110F4", "U+110F5", "U+110F6", "U+110F7", "U+110F8", "U+110F9">>,
    <<"U+11136", "U+11137", "U+11138", "U+11139", "U+1113A", "U+1113B", "U+1113C", "U+1113D", "U+1113E", "U+1113F">>,
    <<"U+111D0", "U+111D1", "U+111D2", "U+111D3", "U+111D4", "U+111D5", "U+111D6", "U+111D7", "U+111D8", "U+111D9">>,
    <<"U+112F0", "U+112F1", "U+112F2", "U+112F3", "U+112F4", "U+112F5", "U+112F6", "U+112F7", "U+112F8", "U+112F9">>,
    <<"U+11450", "U+11451", "U+11452", "U+11453", "U+11454", "U+11455", "U+11456", "U+11457", "U+11458", "U+11459">>,
    <<"U+114D0", "U+114D1", "U+114D2", "U+114D3", "U+114D4", "U+114D5", "U+114D6", "U+114D7", "U+114D8", "U+114D9">>,
    <<"U+11650", "U+11651", "U+11652", "U+11653", "U+11654", "U+11655", "U+11656", "U+11657", "U+11658", "U+11659">>,
    <<"U+116C0", "U+116C1", "U+116C2", "U+116C3", "U+116C4", "U+116C5", "U+116C6", "U+116C7", "U+116C8", "U+116C9">>,
    <<"U+11730", "U+11731", "U+11732", "U+11733", "U+11734", "U+11735", "U+11736", "U+11737", "U+11738", "U+11739">>,
    <<"U+118E0", "U+118E1", "U+118E2", "U+118E3", "U+118E4", "U+118E5", "U+118E6", "U+118E7", "U+118E8", "U+118E9">>,
    <<"U+11950", "U+11951", "U+11952", "U+11953", "U+11954", "U+11955", "U+11956", "U+11957", "U+11958", "U+11959">>,
    <<"U+11C50", "U+11C51", "U+11C52", "U+11C53", "U+11C54", "U+11C55", "U+11C56", "U+11C57", "U+11C58", "U+11C59">>,
    <<"U+11D50", "U+11D51", "U+11D52", "U+11D53", "U+11D54", "U+11D55", "U+11D56", "U+11D57", "U+11D58", "U+11D59">>,
    <<"U+11DA0", "U+11DA1", "U+11DA2", "U+11DA3", "U+11DA4", "U+11DA5", "U+11DA6", "U+11DA7", "U+11DA8", "U+11DA9">>,
    <<"U+16A60", "U+16A61", "U+16A62", "U+16A63", "U+16A64", "U+16A65", "U+16A66", "U+16A67", "U+16A68", "U+16A69">>,
    <<"U+16AC0", "U+16AC1", "U+16AC2", "U+16AC3", "U+16AC4", "U+16AC5", "U+16AC6", "U+16AC7", "U+16AC8", "U+16AC9">>,
    <<"U+16B50", "U+16B51", "U+16B52", "U+16B53", "U+16B54", "U+16B55", "U+16B56", "U+16B57", "U+16B58", "U+16B59">>,
    <<"U+1D7CE", "U+1D7CF", "U+1D7D0", "U+1D7D1", "U+1D7D2", "U+1D7D3", "U+1D7D4", "U+1D7D5", "U+1D7D6", "U+1D7D7">>,
    <<"U+1D7D8", "U+1D7D9", "U+1D7DA", "U+1D7DB", "U+1D7DC", "U+1D7DD", "U+1D7DE", "U+1D7DF", "U+1D7E0", "U+1D7E1">>,
    <<"U+1D7E2", "U+1D7E3", "U+1D7E4", "U+1D7E5", "U+1D7E6", "U+1D7E7", "U+1D7E8", "U+1D7E9", "U+1D7EA", "U+1D7EB">>,
    <<"U+1D7EC", "U+1D7ED", "U+1D7EE", "U+1D7EF", "U+1D7F0", "U+1D7F1", "U+1D7F2", "U+1D7F3", "U+1D7F4", "U+1D7F5">>,
    <<"U+1D7F6", "U+1D7F7", "U+1D7F8", "U+1D7F9", "U+1D7FA", "U+1D7FB", "U+1D7FC", "U+1D7FD", "U+1D7FE", "U+1D7FF">>,
    <<"U+1E140", "U+1E141", "U+1E142", "U+1E143", "U+1E144", "U+1E145", "U+1E146", "U+1E147", "U+1E148", "U+1E149">>,
    <<"U+1E2F0", "U+1E2F1", "U+1E2F2", "U+1E2F3", "U+1E2F4", "U+1E2F5", "U+1E2F6", "U+1E2F7", "U+1E2F8", "U+1E2F9">>,
    <<"U+1E950", "U+1E951", "U+1E952", "U+1E953", "U+1E954", "U+1E955", "U+1E956", "U+1E957", "U+1E958", "U+1E959">>,
    <<"U+1FBF0", "U+1FBF1", "U+1FBF2", "U+1FBF3", "U+1FBF4", "U+1FBF5", "U+1FBF6", "U+1FBF7", "U+1FBF8", "U+1FBF9">> >>

Digits == {DigitRows[r][v] : r \in DOMAIN DigitRows, v \in 1..10}

DigitValue ==
    [c \in Digits |->
        (CHOOSE v \in 1..10 : \E r \in DOMAIN DigitRows : DigitRows[r][v] = c)
        - 1]

DigitVal(c) == DigitValue[c]

\* The characters str.strip() removes (str.isspace): the ASCII blanks and
\* separators U+0009..U+000D, U+001C..U+001F and the space, then U+0085,
\* U+00A0 and the blanks of Unicode
Whitespace == {
    "\t", "\n", "", "\f", "\r", "", "", "", "", " ", "U+0085",
    "U+00A0", "U+1680", "U+2000", "U+2001", "U+2002", "U+2003", "U+2004",
    "U+2005", "U+2006", "U+2007", "U+2008", "U+2009", "U+200A", "U+2028",
    "U+2029", "U+202F", "U+205F", "U+3000" }

UpperCase == <<"A", "B", "C", "D", "E", "F", "G", "H", "I", "J", "K", "L", "M", "N", "O", "P", "Q", "R", "S", "T", "U", "V", "W", "X", "Y", "Z">>
LowerCase == <<"a", "b", "c", "d", "e", "f", "g", "h", "i", "j", "k", "l", "m", "n", "o", "p", "q", "r", "s", "t", "u", "v", "w", "x", "y", "z">>

\* c in s
Contains(s, c) == \E i \in DOMAIN s : s[i] = c

\* s.index(c), 1-based; 0 when c is not in s
FirstIndex(s, c) ==
    IF Contains(s, c)
    THEN CHOOSE i \in DOMAIN s : s[i] = c /\ \A j \in 1..(i - 1) : s[j] # c
    ELSE 0

\* s.split(c): the pieces between the occurrences of the one-character separator
RECURSIVE Split(_, _)
Split(s, c) ==
    IF ~Contains(s, c) THEN <<s>>
    ELSE LET i == FirstIndex(s, c)
         IN <<SubSeq(s, 1, i - 1)>> \o Split(SubSeq(s, i + 1, Len(s)), c)

\* s.lstrip(), s.rstrip(), s.strip()
LStrip(s) ==
    SubSeq(s, Cardinality({i \in DOMAIN s :
                              \A j \in 1..i : s[j] \in Whitespace}) + 1,
           Len(s))

RStrip(s) ==
    SubSeq(s, 1, Len(s) - Cardinality({i \in DOMAIN s :
                                          \A j \in i..Len(s) :
                                              s[j] \in Whitespace}))

Strip(s) == RStrip(LStrip(s))

\* s.replace(c, "")
Remove(s, c) == SelectSeq(s, LAMBDA x : x # c)

\* c.lower(), a string.  Beyond ASCII two characters have a lowercase form
\* that holds an ASCII letter: the Kelvin sign U+212A gives "k" and U+0130
\* gives "i" followed by U+0307.  The lowercase forms of the other letters
\* beyond ASCII hold no ASCII character, and the only use of lower() (line
\* 122) searches it for ASCII patterns: those letters are left as they are.
LowerChar(c) ==
    IF \E i \in DOMAIN UpperCase : UpperCase[i] = c
    THEN <<LowerCase[CHOOSE i \in DOMAIN UpperCase : UpperCase[i] = c]>>
    ELSE IF c = "U+212A" THEN <<"k">>
    ELSE IF c = "U+0130" THEN <<"i", "U+0307">>
    ELSE <<c>>

\* s.lower(): the lowercase forms of the characters of s, one after the
\* other (the form of U+0130 takes two places)
Lower(s) ==
    IF ~ \E i \in DOMAIN s : s[i] = "U+0130"
    THEN [i \in DOMAIN s |-> LowerChar(s[i])[1]]
    ELSE LET before(i) ==
                 i - 1 + Cardinality({j \in 1..(i - 1) : s[j] = "U+0130"})
             n == before(Len(s)) + Len(LowerChar(s[Len(s)]))
         IN [p \in 1..n |->
                LET i == CHOOSE i \in DOMAIN s :
                             /\ before(i) < p
                             /\ p <= before(i) + Len(LowerChar(s[i]))
                IN LowerChar(s[i])[p - before(i)]]

\* p in s, for strings
IsSubstring(p, s) ==
    \E i \in 1..(Len(s) - Len(p) + 1) : SubSeq(s, i, i + Len(p) - 1) = p

\* int(s) for a string of digits
RECURSIVE ParseDigits(_)
ParseDigits(s) ==
    IF s = <<>> THEN 0
    ELSE ParseDigits(SubSeq(s, 1, Len(s) - 1)) * 10 + DigitVal(s[Len(s)])

-----------------------------------------------------------------------------
(* Cell values.  A cell of a row read by pandas is a string, a number      *)
(* (kept with its str() form), or NaN for a missing cell; dict.get of a    *)
(* missing column gives None or the default.                               *)

NaN == [k |-> "nan", s |-> <<>>]
None == [k |-> "none", s |-> <<>>]
Str(t) == [k |-> "str", s |-> t]
Num(t) == [k |-> "num", s |-> t]

\* str(value)
PyStr(v) ==
    CASE v.k = "nan" -> <<"n", "a", "n">>
      [] v.k = "none" -> <<"N", "o", "n", "e">>
      [] OTHER -> v.s

\* pd.isna(value)
IsNa(v) == v.k \in {"nan", "none"}

-----------------------------------------------------------------------------
(* Python numbers.  [float, whole, frac] is the int `whole` when float is  *)
(* FALSE (frac is empty), and otherwise the float of value                 *)
(* whole + frac[1]/65536 + frac[2]/65536^2 + ...: frac holds the binary    *)
(* digits of the fraction 16 at a time, each group a number below 65536,   *)
(* the last group not 0.                                                   *)

PyInt(n) == [float |-> FALSE, whole |-> n, frac |-> <<>>]
PyFloat(w, f) == [float |-> TRUE, whole |-> w, frac |-> f]

\* the number of binary digits of n
BitLen(n) ==
    CHOOSE k \in 0..31 : IF k = 0 THEN n = 0 ELSE n \div (2 ^ (k - 1)) = 1

\* the k-th group of the fraction f
Limb(f, k) == IF k <= Len(f) THEN f[k] ELSE 0

\* f without its trailing zero groups
StripZeros(f) ==
    SubSeq(f, 1, Cardinality({k \in DOMAIN f :
                                 \E j \in k..Len(f) : f[j] # 0}))

\* the number of binary digits 0 before the first 1 of f
LeadingZeros(f) ==
    LET z == Cardinality({k \in DOMAIN f : \A j \in 1..k : f[j] = 0})
    IN IF z = Len(f) THEN 16 * z ELSE 16 * z + 16 - BitLen(f[z + 1])

\* The sum of the fractions f and g over the groups lo..hi, plus the carry
\* cin into group hi: the groups of the sum and the carry out of group lo.
\* The right half is added first, then the left half with its carry.
RECURSIVE AddSeg(_, _, _, _, _)
AddSeg(f, g, lo, hi, cin) ==
    IF lo > hi THEN [c |-> cin, limbs |-> <<>>]
    ELSE IF lo = hi
    THEN [c |-> (Limb(f, lo) + Limb(g, lo) + cin) \div 65536,
          limbs |-> <<(Limb(f, lo) + Limb(g, lo) + cin) % 65536>>]
    ELSE LET r == AddSeg(f, g, ((lo + hi) \div 2) + 1, hi, cin)
             l == [c \in 0..1 |-> AddSeg(f, g, lo, (lo + hi) \div 2, c)][r.c]
         IN [c |-> l.c, limbs |-> l.limbs \o r.limbs]

\* the sum of the fractions f and g: its groups, and the carry into the
\* whole part
AddLimbs(f, g) ==
    AddSeg(f, g, 1, IF Len(f) > Len(g) THEN Len(f) ELSE Len(g), 0)

\* n times the groups lo..hi of f, groups of the base b, plus the carry cin
\* into group hi: the groups of the product and the carry out of group lo
RECURSIVE MulSeg(_, _, _, _, _, _)
MulSeg(f, n, b, lo, hi, cin) ==
    IF lo > hi THEN [c |-> cin, limbs |-> <<>>]
    ELSE IF lo = hi
    THEN [c |-> (n * f[lo] + cin) \div b, limbs |-> <<(n * f[lo] + cin) % b>>]
    ELSE LET r == MulSeg(f, n, b, ((lo + hi) \div 2) + 1, hi, cin)
             l == [c \in 0..n |-> MulSeg(f, n, b, lo, (lo + hi) \div 2, c)][r.c]
         IN [c |-> l.c, limbs |-> l.limbs \o r.limbs]

\* n times the fraction f, for n < 32768: its groups, and the carry into
\* the whole part
MulLimbs(f, n) == MulSeg(f, n, 65536, 1, Len(f), 0)

\* the k-th binary digit of the fraction f
BitAt(f, k) ==
    (Limb(f, (k + 15) \div 16) \div (2 ^ (16 * ((k + 15) \div 16) - k))) % 2

\* the first `keep` binary digits of the fraction f, which has more
Truncate(f, keep) ==
    [k \in 1..((keep + 15) \div 16) |->
        IF 16 * k <= keep THEN f[k]
        ELSE f[k] - (f[k] % (2 ^ (16 * k - keep)))]

\* the fraction whose only binary digit 1 is digit `keep`
Ulp(keep) ==
    [k \in 1..((keep + 15) \div 16) |->
        IF 16 * k < keep THEN 0 ELSE 2 ^ (16 * k - keep)]

\* the float of whole part w and fraction r.limbs, r.c carried into w
Carried(w, r) == PyFloat(w + r.c, StripZeros(r.limbs))

\* The number whose whole part is w and whose fraction starts with the
\* groups f, rounded to `keep` binary digits of the fraction, to the
\* nearest, a tie to the even one; sticky tells that nonzero digits follow
\* f (f then holds more than keep digits).
RoundTo(w, f, sticky, keep) ==
    IF 16 * Len(f) <= keep THEN PyFloat(w, StripZeros(f))
    ELSE IF /\ BitAt(f, keep + 1) = 1
            /\ \/ sticky
               \/ BitAt(f, keep) = 1
               \/ \E k \in (keep + 2)..(16 * Len(f)) : BitAt(f, k) = 1
    THEN Carried(w, AddLimbs(Truncate(f, keep), Ulp(keep)))
    ELSE PyFloat(w, StripZeros(Truncate(f, keep)))

\* the last binary digit of the fraction a double can hold (2^-1074)
MinDigit == 1074

\* The double nearest to that number: a double keeps 53 binary digits from
\* the first significant one, and none after digit 1074 of the fraction
\* (below 2^-1022 a double has fewer digits, and below 2^-1075 it is 0.0).
RoundDouble(w, f, sticky) ==
    RoundTo(w, f, sticky,
            IF w > 0 THEN 53 - BitLen(w)
            ELSE IF LeadingZeros(f) + 53 > MinDigit THEN MinDigit
            ELSE LeadingZeros(f) + 53)

\* the double nearest to w + 0.g, g the digits and the sticky flag
RoundPart(w, g) == RoundDouble(w, g.limbs, g.sticky)

\* the double nearest to w + r.c + 0.r, r the groups and the carry of them
RoundSum(w, r) == RoundDouble(w + r.c, r.limbs, FALSE)

\* the decimal fraction 0.d four digits at a time
Groups(d) ==
    LET dg(k) == IF k <= Len(d) THEN d[k] ELSE 0
    IN [j \in 1..((Len(d) + 3) \div 4) |->
           1000 * dg(4 * j - 3) + 100 * dg(4 * j - 2) + 10 * dg(4 * j - 1)
           + dg(4 * j)]

\* 65536 times the decimal fraction l: its groups of four decimal digits
\* (limbs), and the carry into the whole part, that is the next 16 binary
\* digits of l
ScaleGroups(l) == MulSeg(l, 65536, 10000, 1, Len(l), 0)

\* One more group of binary digits of the decimal fraction st.l: n counts
\* the digits still wanted from the first significant one on (seen: a
\* significant digit came before).
FractionNext(st, r) ==
    [l |-> r.limbs,
     n |-> st.n - (IF st.seen THEN 16 ELSE BitLen(r.c)),
     seen |-> st.seen \/ r.c > 0,
     limbs |-> Append(st.limbs, r.c)]

FractionStep(st) == FractionNext(st, ScaleGroups(st.l))

\* up to 2^d steps, until the fraction is used up or no digit is wanted
RECURSIVE FractionFold(_, _)
FractionFold(st, d) ==
    IF (\A i \in DOMAIN st.l : st.l[i] = 0) \/ st.n <= 0 THEN st
    ELSE IF d = 0 THEN FractionStep(st)
    ELSE FractionFold(FractionFold(st, d - 1), d - 1)

FractionResult(st) ==
    [limbs |-> st.limbs, sticky |-> \E i \in DOMAIN st.l : st.l[i] # 0]

\* The binary digits of the decimal fraction l, 16 at a time, until n
\* digits are there counted from the first significant one, at most 2^7
\* groups of them, which is more than a double holds; sticky tells that
\* the fraction goes on after them.
FractionLimbs(l, n, seen) ==
    FractionResult(FractionFold([l |-> l, n |-> n, seen |-> seen,
                                 limbs |-> <<>>], 7))

\* float(s) raises ValueError, for s made of digits and points: there is
\* more than one point, or no digit
FloatRaises(s) ==
    LET parts == Split(s, ".")
    IN Len(parts) # 2 \/ (parts[1] = <<>> /\ parts[2] = <<>>)

\* the double nearest to w + 0.d, d a string of decimal digits
FloatOf(w, d) ==
    RoundPart(w, FractionLimbs(Groups([k \in DOMAIN d |-> DigitVal(d[k])]),
                               54 - BitLen(w), w > 0))

\* float(s) for s made of digits and one point: the double nearest to the
\* decimal number
ParseFloat(s) == FloatOf(ParseDigits(Split(s, ".")[1]), Split(s, ".")[2])

\* a < b, a > b, a >= b, a == b, a == 0: by value, an int and a float of
\* the same value being equal
Lt(a, b) ==
    \/ a.whole < b.whole
    \/ /\ a.whole = b.whole
       /\ \E k \in 1..Len(b.frac) :
              /\ Limb(a.frac, k) < b.frac[k]
              /\ \A j \in 1..(k - 1) : Limb(a.frac, j) = b.frac[j]
Gt(a, b) == Lt(b, a)
Ge(a, b) == ~Lt(a, b)
Eq(a, b) == ~Lt(a, b) /\ ~Lt(b, a)
IsZero(a) == Eq(a, PyInt(0))

\* a + b: an int when both are ints, else the double nearest to the sum
Add(a, b) ==
    IF ~a.float /\ ~b.float THEN PyInt(a.whole + b.whole)
    ELSE RoundSum(a.whole + b.whole, AddLimbs(a.frac, b.frac))

\* a * n for the int constant n: an int when a is one, else the double
\* nearest to the product
Mul(a, n) ==
    IF ~a.float THEN PyInt(a.whole * n)
    ELSE RoundSum(n * a.whole, MulLimbs(a.frac, n))

\* One more group of binary digits of the fraction of (st.r + 0.f) / n,
\* for st.r < n < 32768, f read from group st.k on: m counts the digits
\* still wanted from the first significant one on.
QuotientNext(st, n, t) ==
    [r |-> t % n,
     k |-> st.k + 1,
     m |-> st.m - (IF st.seen THEN 16 ELSE BitLen(t \div n)),
     seen |-> st.seen \/ t \div n > 0,
     limbs |-> Append(st.limbs, t \div n)]

QuotientStep(st, f, n) == QuotientNext(st, n, 65536 * st.r + Limb(f, st.k))

\* up to 2^d steps, until the division ends or no digit is wanted
RECURSIVE QuotientFold(_, _, _, _)
QuotientFold(st, f, n, d) ==
    IF (st.r = 0 /\ st.k > Len(f)) \/ st.m <= 0 THEN st
    ELSE IF d = 0 THEN QuotientStep(st, f, n)
    ELSE QuotientFold(QuotientFold(st, f, n, d - 1), f, n, d - 1)

QuotientResult(st, f) ==
    [limbs |-> st.limbs, sticky |-> ~(st.r = 0 /\ st.k > Len(f))]

\* The binary digits of the fraction of (r + 0.f) / n, 16 at a time, until
\* m digits are there counted from the first significant one; sticky tells
\* that the quotient goes on after them.
QuotientLimbs(r, f, n, m, seen) ==
    QuotientResult(QuotientFold([r |-> r, k |-> 1, m |-> m, seen |-> seen,
                                 limbs |-> <<>>], f, n, 7), f)

\* a / n for the int constant n: always a float, the double nearest to the
\* quotient
TrueDiv(a, n) ==
    RoundPart(a.whole \div n,
              QuotientLimbs(a.whole % n, a.frac, n,
                            54 - BitLen(a.whole \div n), a.whole >= n))

-----------------------------------------------------------------------------

\* the try block of clean_numeric_value: float(str_val) when str_val holds
\* a point, else int(str_val), 0 for the empty string; 0 when float raises
TryConvert(str_val) ==
    IF Contains(str_val, ".")
    THEN IF FloatRaises(str_val) THEN PyInt(0) ELSE ParseFloat(str_val)
    ELSE IF str_val # <<>> THEN PyInt(ParseDigits(str_val)) ELSE PyInt(0)

\* clean_numeric_value: str(value) without "*" and ",", stripped, then
\* without every character that is neither a digit nor a point
clean_numeric_value(value) ==
    IF IsNa(value) \/ (value.k = "str" /\ (value.s = <<"-">> \/ value.s = <<>>))
    THEN PyInt(0)
    ELSE TryConvert(SelectSeq(Strip(Remove(Remove(PyStr(value), "*"), ",")),
                              LAMBDA c : c \in Digits \cup {"."}))

\* bool(value): Python truth of a cell.  NaN is true, None and "" are false;
\* a number is true unless it is 0: it is infinite, or its str() form holds
\* a digit other than 0
Truthy(v) ==
    CASE v.k = "nan" -> TRUE
      [] v.k = "none" -> FALSE
      [] v.k = "str" -> v.s # <<>>
      [] v.k = "num" -> \/ v.s \in {<<"i", "n", "f">>, <<"-", "i", "n", "f">>}
                        \/ \E i \in DOMAIN v.s : v.s[i] \in Digits \ {"0"}
-----------------------------------------------------------------------------
(* determine_era                                                           *)

\* re.findall(r"\d{4}", s): the non-overlapping matches, scanning from the
\* left (the first run of four digits, then the matches of what follows it)
RECURSIVE FindYears(_)
FindYears(s) ==
    LET starts == {p \in 1..(Len(s) - 3) : \A i \in p..(p + 3) : s[i] \in Digits}
    IN IF starts = {} THEN <<>>
       ELSE LET p == CHOOSE p \in starts : \A q \in starts : p <= q
            IN <<SubSeq(s, p, p + 3)>> \o FindYears(SubSeq(s, p + 4, Len(s)))

\* determine_era with both year boundaries taken exclusively
determine_era_gt(span) ==
    IF IsNa(span) \/ (span.k = "str" /\ span.s = <<"-">>) THEN "Unknown"
    ELSE LET years == FindYears(PyStr(span))
         IN IF years = <<>> THEN "Unknown"
            ELSE LET last_year == ParseDigits(years[Len(years)])
                 IN IF last_year > 2010 THEN "Modern"
                    ELSE IF last_year > 1990 THEN "Classic"
                    ELSE "Vintage"

determine_era(span) ==
    IF IsNa(span) \/ (span.k = "str" /\ span.s = <<"-">>) THEN "Unknown"
    ELSE LET years == FindYears(PyStr(span))
         IN IF years = <<>> THEN "Unknown"
            ELSE LET last_year == ParseDigits(years[Len(years)])
                 IN IF last_year >= 2010 THEN "Modern"
                    ELSE IF last_year >= 1990 THEN "Classic"
                    ELSE "Vintage"

-----------------------------------------------------------------------------
(* get_country_from_name                                                   *)

exclude_teams ==
    {<<"A", "s", "i", "a">>, <<"I", "C", "C">>, <<"A", "f", "r">>, <<"A", "f", "r", "i", "c", "a">>, <<"W", "o", "r", "l", "d">>, <<"R", "e", "s", "t">>, <<"X", "I">>}

\* code -> full name, in the order of the dict
country_mapping == <<
    <<<<"S", "L">>, <<"S", "r", "i", " ", "L", "a", "n", "k", "a">>>>, <<<<"S", "A">>, <<"S", "o", "u", "t", "h", " ", "A", "f", "r", "i", "c", "a">>>>,
    <<<<"W", "I">>, <<"W", "e", "s", "t", " ", "I", "n", "d", "i", "e", "s">>>>, <<<<"N", "Z">>, <<"N", "e", "w", " ", "Z", "e", "a", "l", "a", "n", "d">>>>,
    <<<<"A", "U", "S">>, <<"A", "u", "s", "t", "r", "a", "l", "i", "a">>>>, <<<<"I", "N", "D", "I", "A">>, <<"I", "n", "d", "i", "a">>>>,
    <<<<"E", "N", "G">>, <<"E", "n", "g", "l", "a", "n", "d">>>>, <<<<"P", "A", "K">>, <<"P", "a", "k", "i", "s", "t", "a", "n">>>>,
    <<<<"B", "D", "E", "S", "H">>, <<"B", "a", "n", "g", "l", "a", "d", "e", "s", "h">>>>, <<<<"Z", "I", "M">>, <<"Z", "i", "m", "b", "a", "b", "w", "e">>>>,
    <<<<"A", "F", "G">>, <<"A", "f", "g", "h", "a", "n", "i", "s", "t", "a", "n">>>>, <<<<"I", "R", "E">>, <<"I", "r", "e", "l", "a", "n", "d">>>>,
    <<<<"S", "C", "O", "T">>, <<"S", "c", "o", "t", "l", "a", "n", "d">>>>, <<<<"N", "e", "t", "h">>, <<"N", "e", "t", "h", "e", "r", "l", "a", "n", "d", "s">>>>,
    <<<<"U", "A", "E">>, <<"U", "A", "E">>>>, <<<<"K", "E", "N", "Y", "A">>, <<"K", "e", "n", "y", "a">>>>,
    <<<<"C", "a", "n">>, <<"C", "a", "n", "a", "d", "a">>>>, <<<<"B", "e", "r">>, <<"B", "e", "r", "m", "u", "d", "a">>>>,
    <<<<"U", "S", "A">>, <<"U", "S", "A">>>>, <<<<"N", "e", "p">>, <<"N", "e", "p", "a", "l">>>>,
    <<<<"H", "K", "G">>, <<"H", "o", "n", "g", " ", "K", "o", "n", "g">>>>, <<<<"O", "m", "a", "n">>, <<"O", "m", "a", "n">>>>,
    <<<<"P", "N", "G">>, <<"P", "a", "p", "u", "a", " ", "N", "e", "w", " ", "G", "u", "i", "n", "e", "a">>>>, <<<<"N", "A", "M">>, <<"N", "a", "m", "i", "b", "i", "a">>>> >>

\* pattern -> country, in the order of the dict
common_patterns == <<
    <<<<"I", "n", "d", "i", "a">>, <<"I", "n", "d", "i", "a">>>>, <<<<"A", "u", "s", "t", "r", "a", "l", "i", "a">>, <<"A", "u", "s", "t", "r", "a", "l", "i", "a">>>>,
    <<<<"E", "n", "g", "l", "a", "n", "d">>, <<"E", "n", "g", "l", "a", "n", "d">>>>, <<<<"P", "a", "k", "i", "s", "t", "a", "n">>, <<"P", "a", "k", "i", "s", "t", "a", "n">>>>,
    <<<<"S", "o", "u", "t", "h", " ", "A", "f", "r", "i", "c", "a">>, <<"S", "o", "u", "t", "h", " ", "A", "f", "r", "i", "c", "a">>>>, <<<<"W", "e", "s", "t", " ", "I", "n", "d", "i", "e", "s">>, <<"W", "e", "s", "t", " ", "I", "n", "d", "i", "e", "s">>>>,
    <<<<"S", "r", "i", " ", "L", "a", "n", "k", "a">>, <<"S", "r", "i", " ", "L", "a", "n", "k", "a">>>>, <<<<"N", "e", "w", " ", "Z", "e", "a", "l", "a", "n", "d">>, <<"N", "e", "w", " ", "Z", "e", "a", "l", "a", "n", "d">>>>,
    <<<<"B", "a", "n", "g", "l", "a", "d", "e", "s", "h">>, <<"B", "a", "n", "g", "l", "a", "d", "e", "s", "h">>>>, <<<<"Z", "i", "m", "b", "a", "b", "w", "e">>, <<"Z", "i", "m", "b", "a", "b", "w", "e">>>> >>

Unknown == <<"U", "n", "k", "n", "o", "w", "n">>

\* country_mapping[country] if country in country_mapping else country
MapCountry(country) ==
    IF \E i \in DOMAIN country_mapping : country_mapping[i][1] = country
    THEN country_mapping[CHOOSE i \in DOMAIN country_mapping :
                             country_mapping[i][1] = country][2]
    ELSE country

\* the loop over common_patterns: the first pattern, in table order, that
\* occurs in the lowered name
FallbackCountry(player_name) ==
    LET lowered == Lower(player_name)
        hits == {i \in DOMAIN common_patterns :
                    IsSubstring(Lower(common_patterns[i][1]), lowered)}
    IN IF hits = {} THEN Unknown
       ELSE common_patterns[CHOOSE i \in hits : \A j \in hits : i <= j][2]

get_country_from_name(player_name) ==
    IF Contains(player_name, "(") /\ Contains(player_name, ")")
    THEN LET country_part == Split(Split(player_name, "(")[2], ")")[1]
             pieces == Split(country_part, "/")
             countries == [i \in DOMAIN pieces |-> Strip(pieces[i])]
             kept == SelectSeq(countries, LAMBDA c : c \notin exclude_teams)
             valid_countries == [i \in DOMAIN kept |-> MapCountry(kept[i])]
         IN IF valid_countries # <<>> THEN valid_countries[1]
            ELSE FallbackCountry(player_name)
    ELSE FallbackCountry(player_name)

-----------------------------------------------------------------------------
(* determine_role.  The three arguments are dicts of Python numbers.       *)

\* dict.get(key, default)
Get(d, key, default) == IF key \in DOMAIN d THEN d[key] ELSE default

\* determine_role with the stumpings threshold taken inclusively
determine_role_ge(batting_stats, bowling_stats, fielding_stats) ==
    LET batting_avg == Get(batting_stats, "Ave", PyInt(0))
        bowling_avg == Get(bowling_stats, "Ave", PyInt(0))
        wickets == Get(bowling_stats, "Wkts", PyInt(0))
        runs == Get(batting_stats, "Runs", PyInt(0))
        dismissals == Get(fielding_stats, "Dis", PyInt(0))
        stumpings == Get(fielding_stats, "St", PyInt(0))
    IN IF Ge(stumpings, PyInt(5))
          \/ (Gt(dismissals, PyInt(20)) /\ Gt(stumpings, PyInt(0)))
       THEN "Wicket-keeper"
       ELSE IF (Gt(runs, PyInt(1000)) /\ Gt(wickets, PyInt(20)))
               \/ (Gt(batting_avg, PyInt(25)) /\ Gt(bowling_avg, PyInt(0))
                   /\ Lt(bowling_avg, PyInt(35)) /\ Gt(wickets, PyInt(10)))
       THEN "All-rounder"
       ELSE IF Gt(wickets, TrueDiv(runs, 100)) /\ Gt(wickets, PyInt(50))
       THEN "Bowler"
       ELSE IF Gt(wickets, PyInt(100)) THEN "Bowler"
       ELSE "Batsman"

determine_role(batting_stats, bowling_stats, fielding_stats) ==
    LET batting_avg == Get(batting_stats, "Ave", PyInt(0))
        bowling_avg == Get(bowling_stats, "Ave", PyInt(0))
        wickets == Get(bowling_stats, "Wkts", PyInt(0))
        runs == Get(batting_stats, "Runs", PyInt(0))
        dismissals == Get(fielding_stats, "Dis", PyInt(0))
        stumpings == Get(fielding_stats, "St", PyInt(0))
    IN IF Gt(stumpings, PyInt(5))
          \/ (Gt(dismissals, PyInt(20)) /\ Gt(stumpings, PyInt(0)))
       THEN "Wicket-keeper"
       ELSE IF (Gt(runs, PyInt(1000)) /\ Gt(wickets, PyInt(20)))
               \/ (Gt(batting_avg, PyInt(25)) /\ Gt(bowling_avg, PyInt(0))
                   /\ Lt(bowling_avg, PyInt(35)) /\ Gt(wickets, PyInt(10)))
       THEN "All-rounder"
       ELSE IF Gt(wickets, TrueDiv(runs, 100)) /\ Gt(wickets, PyInt(50))
       THEN "Bowler"
       ELSE IF Gt(wickets, PyInt(100)) THEN "Bowler"
       ELSE "Batsman"
-----------------------------------------------------------------------------
(* process_cricket_data: the per-player merge.                             *)
(* A row is a dict, column name -> cell; NoRow is the empty dict.          *)

NoRow == [c \in {} |-> None]

Zero == Num(<<"0">>)
EmptyStr == Str(<<>>)

categories == <<"batting", "bowling", "fielding">>
formats == <<"ODI", "T20", "Test">>

\* the priority order of the three merge loops
MergeOrder == <<"Test", "ODI", "T20">>

\* the default value of the accumulator map
EmptyAccumulator ==
    [c \in {"batting", "bowling", "fielding"} |->
        [f \in {"ODI", "T20", "Test"} |-> NoRow]]

\* one iteration of the batting loop with the average of every format
\* present assigned (no "not batting_avg" test)
BattingStepOverwrite(acc, batting_data) ==
    [total_runs |-> Add(acc.total_runs,
                        clean_numeric_value(Get(batting_data, "Runs", Zero))),
     total_matches_batting |->
         Add(acc.total_matches_batting,
             clean_numeric_value(Get(batting_data, "Mat", Zero))),
     batting_avg |->
         IF Truthy(Get(batting_data, "Ave", None))
         THEN clean_numeric_value(Get(batting_data, "Ave", Zero))
         ELSE acc.batting_avg,
     span |->
         IF ~Truthy(acc.span) /\ Truthy(Get(batting_data, "Span", None))
         THEN Get(batting_data, "Span", EmptyStr)
         ELSE acc.span]

\* one iteration of the batting loop, for a format whose row is present
BattingStep(acc, batting_data) ==
    [total_runs |-> Add(acc.total_runs,
                        clean_numeric_value(Get(batting_data, "Runs", Zero))),
     total_matches_batting |->
         Add(acc.total_matches_batting,
             clean_numeric_value(Get(batting_data, "Mat", Zero))),
     batting_avg |->
         IF IsZero(acc.batting_avg) /\ Truthy(Get(batting_data, "Ave", None))
         THEN clean_numeric_value(Get(batting_data, "Ave", Zero))
         ELSE acc.batting_avg,
     span |->
         IF ~Truthy(acc.span) /\ Truthy(Get(batting_data, "Span", None))
         THEN Get(batting_data, "Span", EmptyStr)
         ELSE acc.span]

RECURSIVE BattingLoop(_, _, _)
BattingLoop(data, i, acc) ==
    IF i > Len(MergeOrder) THEN acc
    ELSE LET batting_data == data["batting"][MergeOrder[i]]
         IN BattingLoop(data, i + 1,
                IF DOMAIN batting_data # {}
                THEN BattingStep(acc, batting_data) ELSE acc)

\* one iteration of the bowling loop, for a format whose row is present
BowlingStep(acc, bowling_data) ==
    [total_wickets |-> Add(acc.total_wickets,
                           clean_numeric_value(Get(bowling_data, "Wkts", Zero))),
     total_matches_bowling |->
         Add(acc.total_matches_bowling,
             clean_numeric_value(Get(bowling_data, "Mat", Zero))),
     bowling_avg |->
         IF IsZero(acc.bowling_avg) /\ Truthy(Get(bowling_data, "Ave", None))
         THEN clean_numeric_value(Get(bowling_data, "Ave", Zero))
         ELSE acc.bowling_avg]

RECURSIVE BowlingLoop(_, _, _)
BowlingLoop(data, i, acc) ==
    IF i > Len(MergeOrder) THEN acc
    ELSE LET bowling_data == data["bowling"][MergeOrder[i]]
         IN BowlingLoop(data, i + 1,
                IF DOMAIN bowling_data # {}
                THEN BowlingStep(acc, bowling_data) ELSE acc)

\* one iteration of the fielding loop, for a format whose row is present
FieldingStep(acc, fielding_data) ==
    [total_dismissals |-> Add(acc.total_dismissals,
                              clean_numeric_value(Get(fielding_data, "Dis", Zero))),
     total_stumpings |-> Add(acc.total_stumpings,
                             clean_numeric_value(Get(fielding_data, "St", Zero)))]

RECURSIVE FieldingLoop(_, _, _)
FieldingLoop(data, i, acc) ==
    IF i > Len(MergeOrder) THEN acc
    ELSE LET fielding_data == data["fielding"][MergeOrder[i]]
         IN FieldingLoop(data, i + 1,
                IF DOMAIN fielding_data # {}
                THEN FieldingStep(acc, fielding_data) ELSE acc)

\* max(a, b): b when b > a, else a
Max(a, b) == IF Gt(b, a) THEN b ELSE a

\* total matches taken from the batting rows alone
TotalMatchesBatting(combined_batting, combined_bowling) ==
    combined_batting.Mat

\* max(combined_batting.get("Mat", 0), combined_bowling.get("Mat", 0))
TotalMatches(combined_batting, combined_bowling) ==
    Max(Get(combined_batting, "Mat", PyInt(0)),
        Get(combined_bowling, "Mat", PyInt(0)))

\* the filter `if total_matches < 100 or (...): continue`
SkipPlayer(total_matches, total_runs, total_wickets) ==
    Lt(total_matches, PyInt(100))
    \/ (IsZero(total_matches) /\ IsZero(total_runs) /\ IsZero(total_wickets))

\* player_name.split("(")[0].strip() if "(" in player_name else player_name
CleanName(player_name) ==
    IF Contains(player_name, "(")
    THEN Strip(Split(player_name, "(")[1])
    ELSE player_name

\* The body of the per-player loop: the values of its local variables when
\* the iteration ends, `skip` telling whether it ended at `continue`.
ProcessPlayer(player_name, data) ==
    LET bat == BattingLoop(data, 1,
                   [total_runs |-> PyInt(0), total_matches_batting |-> PyInt(0),
                    batting_avg |-> PyInt(0), span |-> EmptyStr])
        bowl == BowlingLoop(data, 1,
                    [total_wickets |-> PyInt(0), total_matches_bowling |-> PyInt(0),
                     bowling_avg |-> PyInt(0)])
        field == FieldingLoop(data, 1,
                     [total_dismissals |-> PyInt(0), total_stumpings |-> PyInt(0)])
        combined_batting ==
            [Runs |-> bat.total_runs, Mat |-> bat.total_matches_batting,
             Ave |-> bat.batting_avg, Span |-> bat.span]
        combined_bowling ==
            [Wkts |-> bowl.total_wickets, Mat |-> bowl.total_matches_bowling,
             Ave |-> bowl.bowling_avg]
        combined_fielding ==
            [Dis |-> field.total_dismissals, St |-> field.total_stumpings]
        total_matches == TotalMatches(combined_batting, combined_bowling)
        role == determine_role(combined_batting, combined_bowling,
                               combined_fielding)
    IN [combined_batting |-> combined_batting,
        combined_bowling |-> combined_bowling,
        combined_fielding |-> combined_fielding,
        total_matches |-> total_matches,
        skip |-> SkipPlayer(total_matches, bat.total_runs, bowl.total_wickets),
        player_obj |->
            [name |-> CleanName(player_name),
             country |-> get_country_from_name(player_name),
             role |-> role,
             matches |-> total_matches,
             runs |-> bat.total_runs,
             wickets |-> bowl.total_wickets,
             average |-> IF Gt(bat.batting_avg, PyInt(0)) THEN bat.batting_avg
                         ELSE IF role = "Bowler" THEN bowl.bowling_avg
                         ELSE PyInt(0),
             era |-> determine_era(bat.span)]]

-----------------------------------------------------------------------------
(* Inputs of the function-level specifications.                            *)

\* the strings made of at most n pieces of pool
RECURSIVE Concats(_, _)
Concats(pool, n) ==
    IF n = 0 THEN {<<>>}
    ELSE LET shorter == Concats(pool, n - 1)
         IN shorter \cup {s \o p : s \in shorter, p \in pool}

\* the variables of process_cricket_data, while a single function is studied
PipelineIdle ==
    /\ cur = 0
    /\ df = <<>>
    /\ nrows = 0
    /\ lastEvent = "none"
    /\ players_data = <<>>
    /\ order = <<>>
    /\ idx = 0
    /\ failed = {}
    /\ final_players = <<>>

PipelineRest ==
    UNCHANGED <<cur, df, nrows, lastEvent, players_data, order, idx, failed,
                final_players>>

(* ---- determine_role ---- *)

\* ints and floats on and around every threshold
RunsVals == {PyInt(0), PyInt(1000), PyInt(1001), PyInt(1500), PyInt(5000),
             PyInt(5100), ParseFloat(<<"1", "0", "0", "0", ".", "5">>), ParseFloat(<<"5", "0", "9", "9", ".", "9", "9">>)}
BatAveVals == {PyInt(0), PyInt(25), ParseFloat(<<"2", "5", ".", "0", "1">>), ParseFloat(<<"4", "0", ".", "5">>)}
WktsVals == {PyInt(0), PyInt(10), PyInt(11), PyInt(20), PyInt(21), PyInt(30),
             PyInt(50), PyInt(51), PyInt(100), PyInt(101),
             ParseFloat(<<"5", "0", ".", "5">>)}
BowlAveVals == {PyInt(0), ParseFloat(<<"0", ".", "0", "1">>), ParseFloat(<<"3", "4", ".", "9", "9">>),
                PyInt(35), ParseFloat(<<"4", "0", ".", "0">>)}
DisVals == {PyInt(0), PyInt(20), PyInt(21), ParseFloat(<<"2", "0", ".", "5">>)}
StVals == {PyInt(0), PyInt(1), PyInt(5), PyInt(6), PyInt(10),
           ParseFloat(<<"5", ".", "5">>)}

InitRole ==
    /\ arg \in [batting_stats : [Runs : RunsVals, Ave : BatAveVals],
                bowling_stats : [Wkts : WktsVals, Ave : BowlAveVals],
                fielding_stats : [Dis : DisVals, St : StVals]]
    /\ result = "none"
    /\ phase = "call"
    /\ PipelineIdle

CallRole ==
    /\ phase = "call"
    /\ result' = determine_role(arg.batting_stats, arg.bowling_stats,
                                arg.fielding_stats)
    /\ phase' = "returned"
    /\ UNCHANGED arg
    /\ PipelineRest

SpecRole == InitRole /\ [][CallRole]_vars

(* ---- determine_era ---- *)

MaxSpanPieces == 3

SpanPieces == {<<"2", "0", "1", "0">>, <<"2", "0", "0", "9">>, <<"1", "9", "9", "0">>, <<"1", "9", "8", "9">>, <<"2", "0", "2", "3">>, <<"-">>, <<"X">>, <<"1">>,
               <<" ">>, <<"U+0662", "U+0660", "U+0661", "U+0661">>}

InitEra ==
    /\ arg \in {NaN, None, Num(<<"2", "0", "1", "5">>), Num(<<"1", "9", "8", "9", ".", "0">>)}
               \cup {Str(s) : s \in Concats(SpanPieces, MaxSpanPieces)}
    /\ result = "none"
    /\ phase = "call"
    /\ PipelineIdle

CallEra ==
    /\ phase = "call"
    /\ result' = determine_era(arg)
    /\ phase' = "returned"
    /\ UNCHANGED arg
    /\ PipelineRest

SpecEra == InitEra /\ [][CallEra]_vars

(* ---- get_country_from_name ---- *)

MaxNamePieces == 4

NamePieces == {<<"(">>, <<")">>, <<"/">>, <<" ">>, <<"S", "L">>, <<"A", "s", "i", "a">>, <<"X", "I">>, <<"F", "o", "o">>,
               <<"i", "n", "d", "i", "a">>, <<"A", "u", "s", "t", "r", "a", "l", "i", "a">>}

InitCountry ==
    /\ arg \in Concats(NamePieces, MaxNamePieces)
    /\ result = <<>>
    /\ phase = "call"
    /\ PipelineIdle

CallCountry ==
    /\ phase = "call"
    /\ result' = get_country_from_name(arg)
    /\ phase' = "returned"
    /\ UNCHANGED arg
    /\ PipelineRest

SpecCountry == InitCountry /\ [][CallCountry]_vars

(* ---- the per-player merge of process_cricket_data ---- *)

\* the most rows one player's accumulator holds in this specification
MaxPlayerRows == 4

BatRow(player, runs, mat, ave, span) ==
    [Player |-> player, Runs |-> runs, Mat |-> mat, Ave |-> ave, Span |-> span]
BowlRow(player, wkts, mat, ave) ==
    [Player |-> player, Wkts |-> wkts, Mat |-> mat, Ave |-> ave]
FieldRow(player, dis, st) ==
    [Player |-> player, Dis |-> dis, St |-> st]

\* batting rows: string cells, numeric cells, placeholders, decimals that
\* no double holds exactly, missing cells (NaN) and a file without the Ave
\* and Span columns
BatRows(player) ==
    { BatRow(player, Str(<<"5", "0", "0", "0">>), Str(<<"6", "0">>), Str(<<"4", "0", ".", "5">>), Str(<<"2", "0", "0", "0", "-", "2", "0", "1", "5">>)),
      BatRow(player, Str(<<"1", ",", "2", "3", "4">>), Str(<<"4", "0">>), Str(<<"-">>), NaN),
      BatRow(player, Num(<<"0">>), Num(<<"3", "9">>), Num(<<"0">>), Str(<<"1", "9", "8", "5", "-", "1", "9", "9", "9">>)),
      BatRow(player, Str(<<"5", "0", "*">>), Str(<<"1", "5", "0">>), Str(<<"2", "5", ".", "7", "5", "*">>), Str(<<"-">>)),
      BatRow(player, Str(<<"0", ".", "1">>), Str(<<"9", "9", ".", "9">>), Str(<<"0", ".", "0", "0", "5">>), Str(<<>>)),
      [Player |-> player, Runs |-> NaN, Mat |-> NaN] }

\* bowling rows: the last one with an infinite Ave, which pandas reads from
\* the text "inf"
BowlRows(player) ==
    { BowlRow(player, Str(<<"1", "5", "0">>), Str(<<"1", "2", "0">>), Str(<<"3", "0", ".", "2", "5">>)),
      BowlRow(player, Str(<<"-">>), Str(<<"1", "0">>), Str(<<"0", ".", "0">>)),
      BowlRow(player, Num(<<"3", "0">>), Num(<<"9", "5">>), Num(<<"i", "n", "f">>)) }

FieldRows(player) ==
    { FieldRow(player, Str(<<"3", "0">>), Str(<<"1", "0">>)),
      FieldRow(player, NaN, Str(<<"-">>)) }

MergePlayer == <<"A", " ", "(", "A", "U", "S", ")">>

RowCount(data) ==
    Cardinality({cf \in {"batting", "bowling", "fielding"} \X {"ODI", "T20", "Test"} :
                    DOMAIN data[cf[1]][cf[2]] # {}})

InitMerge ==
    /\ arg \in {a \in [player_name : {MergePlayer},
                       data : [batting : [{"ODI", "T20", "Test"} ->
                                             BatRows(Str(MergePlayer)) \cup {NoRow}],
                               bowling : [{"ODI", "T20", "Test"} ->
                                             BowlRows(Str(MergePlayer)) \cup {NoRow}],
                               fielding : [{"ODI", "T20", "Test"} ->
                                             FieldRows(Str(MergePlayer)) \cup {NoRow}]]] :
                   RowCount(a.data) \in 1..MaxPlayerRows}
    /\ result = "none"
    /\ phase = "call"
    /\ PipelineIdle

CallMerge ==
    /\ phase = "call"
    /\ result' = ProcessPlayer(arg.player_name, arg.data)
    /\ phase' = "returned"
    /\ UNCHANGED arg
    /\ PipelineRest

SpecMerge == InitMerge /\ [][CallMerge]_vars

-----------------------------------------------------------------------------
(* process_cricket_data: ingestion, the per-player loop, the sort.         *)

\* the most rows read from all the files of one run
MaxRows == 2

NumSources == Len(categories) * Len(formats)

\* the nested loops visit category by category, format by format
SourceCategory(i) == categories[((i - 1) \div Len(formats)) + 1]
SourceFormat(i) == formats[((i - 1) % Len(formats)) + 1]

\* Player cells: two players, one of them also between a form feed and a
\* space, a missing cell and a blank one
PlayerCells == {Str(<<"A", " ", "(", "A", "U", "S", ")">>), Str(<<"\f", "A", " ", "(", "A", "U", "S", ")", " ">>), Str(<<"B", " ", "(", "A", "s", "i", "a", "/", "S", "L", ")">>),
                NaN, Str(<<" ", " ">>)}

PipelineRows(category) ==
    CASE category = "batting" ->
           UNION {{BatRow(p, Str(<<"5", "0", "0", "0">>), Str(<<"1", "5", "0">>), Str(<<"4", "0", ".", "5">>),
                          Str(<<"2", "0", "0", "0", "-", "2", "0", "1", "5">>)),
                   BatRow(p, Num(<<"2", "5", "0", "0">>), Num(<<"1", "2", "0">>), Str(<<"-">>), NaN)} :
                  p \in PlayerCells}
      [] category = "bowling" ->
           {BowlRow(p, Str(<<"5", "0">>), Str(<<"1", "1", "0">>), Str(<<"3", "0", ".", "2", "5">>)) :
            p \in PlayerCells}
      [] category = "fielding" ->
           {FieldRow(p, Str(<<"3", "0">>), Str(<<"1", "0">>)) : p \in PlayerCells}

Init ==
    /\ arg = "none"
    /\ result = "none"
    /\ cur = 1
    /\ phase = "open"
    /\ df = <<>>
    /\ nrows = 0
    /\ lastEvent = "start"
    /\ players_data = [n \in {} |-> EmptyAccumulator]
    /\ order = <<>>
    /\ idx = 1
    /\ failed = {}
    /\ final_players = <<>>

\* where the file loop goes after file cur
AfterSource == IF cur = NumSources THEN "players" ELSE "open"

\* os.path.exists(file_path) is false: "File not found" is printed
SourceMissing ==
    /\ phase = "open"
    /\ lastEvent' = "file_not_found"
    /\ cur' = cur + 1
    /\ phase' = AfterSource
    /\ UNCHANGED <<arg, result, df, nrows, players_data, order, idx, failed,
                   final_players>>

\* pd.read_csv raises and the exception ends the whole ingestion
SourceUnreadableAbort ==
    /\ phase = "open"
    /\ lastEvent' = "file_error"
    /\ phase' = "players"
    /\ UNCHANGED <<arg, result, cur, df, nrows, players_data, order, idx,
                   failed, final_players>>

\* pd.read_csv raises: the except clause prints the error, the loop goes on
SourceUnreadable ==
    /\ phase = "open"
    /\ lastEvent' = "file_error"
    /\ cur' = cur + 1
    /\ phase' = AfterSource
    /\ UNCHANGED <<arg, result, df, nrows, players_data, order, idx, failed,
                   final_players>>

\* pd.read_csv returns the frame
SourceRead ==
    /\ phase = "open"
    /\ lastEvent' = "processing"
    /\ phase' = "rows"
    /\ df' = <<>>
    /\ UNCHANGED <<arg, result, cur, nrows, players_data, order, idx, failed,
                   final_players>>

\* str(row.get("Player", "")).strip()
PlayerName(r) == Strip(PyStr(Get(r, "Player", EmptyStr)))

\* the row loop with the accumulator keyed by the name as read (no strip)
StoreRowUntrimmed(pd, r, category, format_type) ==
    LET player_name == PyStr(Get(r, "Player", EmptyStr))
    IN IF Strip(player_name) = <<>> \/ Strip(player_name) = <<"n", "a", "n">> THEN pd
       ELSE [n \in DOMAIN pd \cup {player_name} |->
                IF n = player_name
                THEN [(IF n \in DOMAIN pd THEN pd[n] ELSE EmptyAccumulator)
                         EXCEPT ![category][format_type] = r]
                ELSE pd[n]]

\* the body of the row loop: players_data after the row r of the file
\* (category, format_type)
StoreRow(pd, r, category, format_type) ==
    LET player_name == PlayerName(r)
    IN IF player_name = <<>> \/ player_name = <<"n", "a", "n">> THEN pd
       ELSE [n \in DOMAIN pd \cup {player_name} |->
                IF n = player_name
                THEN [(IF n \in DOMAIN pd THEN pd[n] ELSE EmptyAccumulator)
                         EXCEPT ![category][format_type] = r]
                ELSE pd[n]]

\* the keys of a dict in insertion order, after the keys of pd2 new to pd1
\* (at most one) are added
KeyOrder(ord, pd1, pd2) ==
    IF DOMAIN pd2 = DOMAIN pd1 THEN ord
    ELSE Append(ord, CHOOSE n \in DOMAIN pd2 : n \notin DOMAIN pd1)

\* one iteration of `for _, row in df.iterrows()`
IngestRow ==
    /\ phase = "rows"
    /\ nrows < MaxRows
    /\ \E r \in PipelineRows(SourceCategory(cur)) :
          /\ df' = Append(df, r)
          /\ players_data' = StoreRow(players_data, r, SourceCategory(cur),
                                      SourceFormat(cur))
          /\ order' = KeyOrder(order, players_data,
                               StoreRow(players_data, r, SourceCategory(cur),
                                        SourceFormat(cur)))
    /\ nrows' = nrows + 1
    /\ UNCHANGED <<arg, result, cur, phase, lastEvent, idx, failed,
                   final_players>>

\* df.iterrows() is exhausted
EndOfFile ==
    /\ phase = "rows"
    /\ cur' = cur + 1
    /\ phase' = AfterSource
    /\ df' = <<>>
    /\ UNCHANGED <<arg, result, nrows, lastEvent, players_data, order, idx,
                   failed, final_players>>

\* one iteration of `for player_name, data in players_data.items()` that
\* reaches its end or its `continue`
ProcessNext ==
    /\ phase = "players"
    /\ idx <= Len(order)
    /\ LET locals == ProcessPlayer(order[idx], players_data[order[idx]])
       IN final_players' = IF locals.skip THEN final_players
                           ELSE Append(final_players, locals.player_obj)
    /\ idx' = idx + 1
    /\ UNCHANGED <<arg, result, cur, phase, df, nrows, lastEvent,
                   players_data, order, failed>>

\* an iteration that raises, with the exception ending the per-player loop
ProcessRaisesAbort ==
    /\ phase = "players"
    /\ idx <= Len(order)
    /\ failed' = failed \cup {order[idx]}
    /\ lastEvent' = "player_error"
    /\ idx' = Len(order) + 1
    /\ UNCHANGED <<arg, result, cur, phase, df, nrows, players_data, order,
                   final_players>>

\* an iteration that raises before final_players.append: the except clause
\* prints the error and continues with the next player
ProcessRaises ==
    /\ phase = "players"
    /\ idx <= Len(order)
    /\ failed' = failed \cup {order[idx]}
    /\ lastEvent' = "player_error"
    /\ idx' = idx + 1
    /\ UNCHANGED <<arg, result, cur, phase, df, nrows, players_data, order,
                   final_players>>

\* the sort key: x["runs"] + (x["wickets"] * 50)
SortKey(x) == Add(x.runs, Mul(x.wickets, 50))

\* a descending sort that puts a record before the records of equal key
RECURSIVE SortDescUnstable(_)
SortDescUnstable(s) ==
    IF s = <<>> THEN <<>>
    ELSE LET sorted == SortDescUnstable(SubSeq(s, 1, Len(s) - 1))
             x == s[Len(s)]
             pos == Cardinality({i \in DOMAIN sorted :
                                    Gt(SortKey(sorted[i]), SortKey(x))})
         IN SubSeq(sorted, 1, pos) \o <<x>>
            \o SubSeq(sorted, pos + 1, Len(sorted))

\* list.sort(key=..., reverse=True): descending, records of equal key left in
\* their order (each record goes after the records whose key is not smaller)
RECURSIVE SortDesc(_)
SortDesc(s) ==
    IF s = <<>> THEN <<>>
    ELSE LET sorted == SortDesc(SubSeq(s, 1, Len(s) - 1))
             x == s[Len(s)]
             pos == Cardinality({i \in DOMAIN sorted :
                                    Ge(SortKey(sorted[i]), SortKey(x))})
         IN SubSeq(sorted, 1, pos) \o <<x>>
            \o SubSeq(sorted, pos + 1, Len(sorted))

\* final_players.sort(...); return final_players, upon which main prints
\* "Processed ... players successfully!"
SortAndReturn ==
    /\ phase = "players"
    /\ idx > Len(order)
    /\ final_players' = SortDesc(final_players)
    /\ phase' = "done"
    /\ lastEvent' = "processed"
    /\ UNCHANGED <<arg, result, cur, df, nrows, players_data, order, idx,
                   failed>>

Next ==
    \/ SourceMissing
    \/ SourceUnreadable
    \/ SourceRead
    \/ IngestRow
    \/ EndOfFile
    \/ ProcessNext
    \/ ProcessRaises
    \/ SortAndReturn

Spec == Init /\ [][Next]_vars

-----------------------------------------------------------------------------
(* Properties of determine_role.                                           *)

\* C2: determine_role returns exactly one label by first-match precedence:
\* Wicket-keeper if stumpings > 5 or (dismissals > 20 and stumpings > 0);
\* else All-rounder if (runs > 1000 and wickets > 20) or (batting average
\* > 25 and 0 < bowling average < 35 and wickets > 10); else Bowler if
\* (wickets > runs/100 and wickets > 50) or wickets > 100; else Batsman.
\* Stumpings = 10 gives Wicket-keeper whatever the other statistics.
RolePrecedence ==
    phase = "returned" =>
        LET runs == arg.batting_stats.Runs
            batAve == arg.batting_stats.Ave
            wkts == arg.bowling_stats.Wkts
            bowlAve == arg.bowling_stats.Ave
            dis == arg.fielding_stats.Dis
            st == arg.fielding_stats.St
            keeper == Gt(st, PyInt(5)) \/ (Gt(dis, PyInt(20)) /\ Gt(st, PyInt(0)))
            allRounder ==
                \/ (Gt(runs, PyInt(1000)) /\ Gt(wkts, PyInt(20)))
                \/ (Gt(batAve, PyInt(25)) /\ Lt(PyInt(0), bowlAve)
                    /\ Lt(bowlAve, PyInt(35)) /\ Gt(wkts, PyInt(10)))
            \* wickets > runs/100, as runs < 100 * wickets without rounding
            bowler ==
                \/ (Lt(runs, [whole |-> 100 * wkts.whole
                                             + MulLimbs(wkts.frac, 100).c,
                               frac |-> MulLimbs(wkts.frac, 100).limbs])
                    /\ Gt(wkts, PyInt(50)))
                \/ Gt(wkts, PyInt(100))
        IN /\ result \in {"Wicket-keeper", "All-rounder", "Bowler", "Batsman"}
           /\ (result = "Wicket-keeper") <=> keeper
           /\ (result = "All-rounder") <=> (~keeper /\ allRounder)
           /\ (result = "Bowler") <=> (~keeper /\ ~allRounder /\ bowler)
           /\ (result = "Batsman") <=> (~keeper /\ ~allRounder /\ ~bowler)
           /\ (Eq(st, PyInt(10)) => result = "Wicket-keeper")

\* a keeper who also qualifies as an all-rounder has been classified
RoleKeeperOverAllRounder ==
    /\ phase = "returned"
    /\ arg.fielding_stats.St = PyInt(10)
    /\ arg.batting_stats.Runs = PyInt(1500)
    /\ arg.bowling_stats.Wkts = PyInt(30)
    /\ result = "Wicket-keeper"

-----------------------------------------------------------------------------
(* Properties of determine_era.                                            *)

Digits4(s, p) == p + 3 <= Len(s) /\ \A i \in p..(p + 3) : s[i] \in Digits

\* the number of digits that immediately precede position p
DigitsBefore(s, p) ==
    LET q == CHOOSE q \in 1..p :
                 /\ \A i \in q..(p - 1) : s[i] \in Digits
                 /\ (q = 1 \/ s[q - 1] \notin Digits)
    IN p - q

\* where the 4-digit sequences start: every fourth digit of a run of digits
YearStarts(s) ==
    {p \in DOMAIN s : Digits4(s, p) /\ DigitsBefore(s, p) % 4 = 0}

YearAt(s, p) ==
    DigitVal(s[p]) * 1000 + DigitVal(s[p + 1]) * 100
    + DigitVal(s[p + 2]) * 10 + DigitVal(s[p + 3])

\* C7: determine_era returns "Unknown" when the span is absent, the
\* placeholder "-", or holds no 4-digit sequence; otherwise, with end_year the
\* last 4-digit sequence (the sequences being taken from the left, without
\* overlap), "Modern" iff end_year >= 2010, "Classic" iff 1990 <= end_year
\* < 2010, "Vintage" iff end_year < 1990.
EraByEndYear ==
    phase = "returned" =>
        LET s == PyStr(arg)
        IN IF IsNa(arg) \/ arg = Str(<<"-">>)
              \/ ~ \E p \in DOMAIN s : Digits4(s, p)
           THEN result = "Unknown"
           ELSE LET last == CHOOSE p \in YearStarts(s) :
                                \A q \in YearStarts(s) : q <= p
                    end_year == YearAt(s, last)
                IN /\ result \in {"Modern", "Classic", "Vintage"}
                   /\ (result = "Modern") <=> end_year >= 2010
                   /\ (result = "Classic") <=>
                          (1990 <= end_year /\ end_year < 2010)
                   /\ (result = "Vintage") <=> end_year < 1990

\* a span whose last year is the boundary 1990 and whose first is later
EraLastYearBoundary ==
    /\ phase = "returned"
    /\ arg = Str(<<"2", "0", "2", "3", "-", "1", "9", "9", "0">>)
    /\ result = "Classic"

-----------------------------------------------------------------------------
(* Properties of get_country_from_name.                                    *)

\* the text between the first "(" and the first ")" after it; the name has a
\* parenthesized segment when both exist
HasSegment(name) ==
    \E i, j \in DOMAIN name : i < j /\ name[i] = "(" /\ name[j] = ")"

SegmentContent(name) ==
    LET open == FirstIndex(name, "(")
        close == CHOOSE j \in (open + 1)..Len(name) :
                     /\ name[j] = ")"
                     /\ \A k \in (open + 1)..(j - 1) : name[k] # ")"
    IN SubSeq(name, open + 1, close - 1)

ExpectedCountry(name) ==
    LET raw == IF HasSegment(name) THEN Split(SegmentContent(name), "/")
               ELSE <<>>
        tokens == [i \in DOMAIN raw |-> Strip(raw[i])]
        live == {i \in DOMAIN tokens : tokens[i] \notin exclude_teams}
        lowered == Lower(name)
        known == {i \in DOMAIN common_patterns :
                     IsSubstring(Lower(common_patterns[i][1]), lowered)}
    IN IF live # {}
       THEN MapCountry(tokens[CHOOSE i \in live : \A j \in live : i <= j])
       ELSE IF known # {}
       THEN common_patterns[CHOOSE i \in known : \A j \in known : i <= j][2]
       ELSE Unknown

\* C3: get_country_from_name returns the first token of the parenthesized
\* segment (split on "/", trimmed) that is not in the exclusion set, mapped
\* through the code table when it is a code; without a parenthesized segment
\* or a surviving token, the first of the ten known country names occurring
\* in the name, case-insensitively; otherwise "Unknown".
CountryResolution ==
    phase = "returned" => result = ExpectedCountry(arg)

-----------------------------------------------------------------------------
(* Properties of the per-player merge.                                     *)

Present(category) ==
    {f \in {"ODI", "T20", "Test"} : DOMAIN arg.data[category][f] # {}}

\* the sum of the cleaned column over the formats present, added in the
\* order Test, ODI, T20 from the first position i on
RECURSIVE ColumnSum(_, _, _)
ColumnSum(category, column, i) ==
    IF i = 0 THEN PyInt(0)
    ELSE LET row == arg.data[category][MergeOrder[i]]
         IN IF DOMAIN row = {} THEN ColumnSum(category, column, i - 1)
            ELSE Add(ColumnSum(category, column, i - 1),
                     clean_numeric_value(Get(row, column, Zero)))

\* C1: total matches is the larger of the summed cleaned batting Mat and the
\* summed cleaned bowling Mat over the formats present; the player is left
\* out exactly when total matches < 100, or total matches, runs and wickets
\* are all 0; so 99 matches with 5000 runs is left out, 100 matches is kept,
\* and every record has matches >= 100.
MatchesFilter ==
    phase = "returned" =>
        LET batMat == ColumnSum("batting", "Mat", 3)
            bowlMat == ColumnSum("bowling", "Mat", 3)
            runs == ColumnSum("batting", "Runs", 3)
            wkts == ColumnSum("bowling", "Wkts", 3)
            total == IF Ge(batMat, bowlMat) THEN batMat ELSE bowlMat
        IN /\ Eq(result.total_matches, total)
           /\ result.skip <=>
                  \/ Lt(total, PyInt(100))
                  \/ (IsZero(total) /\ IsZero(runs) /\ IsZero(wkts))
           /\ (Eq(total, PyInt(99)) /\ Eq(runs, PyInt(5000))) => result.skip
           /\ Eq(total, PyInt(100)) => ~result.skip
           /\ ~result.skip =>
                  /\ Eq(result.player_obj.matches, total)
                  /\ Ge(result.player_obj.matches, PyInt(100))

\* batting rows in two formats add up to exactly 100 matches, more than the
\* bowling matches, and the player is kept
MatchesExactlyHundredKept ==
    /\ phase = "returned"
    /\ Cardinality(Present("batting")) = 2
    /\ Present("bowling") # {}
    /\ result.combined_batting.Mat = PyInt(100)
    /\ result.combined_bowling.Mat = PyInt(95)
    /\ ~result.skip
    /\ result.player_obj.matches = PyInt(100)

\* the positions in the priority order Test, ODI, T20 whose row is present
\* with a nonzero cleaned Ave
WithAverage(category) ==
    {i \in 1..3 :
        /\ DOMAIN arg.data[category][MergeOrder[i]] # {}
        /\ ~IsZero(clean_numeric_value(
                      Get(arg.data[category][MergeOrder[i]], "Ave", Zero)))}

FirstAverage(category) ==
    IF WithAverage(category) = {} THEN PyInt(0)
    ELSE LET i == CHOOSE i \in WithAverage(category) :
                      \A j \in WithAverage(category) : i <= j
         IN clean_numeric_value(
                Get(arg.data[category][MergeOrder[i]], "Ave", Zero))

\* C8: the combined batting (and bowling) average is the cleaned Ave of the
\* first format in the order Test, ODI, T20 whose row is present with a
\* nonzero cleaned Ave, 0 when there is none; a later format never
\* overwrites it, so a nonzero Test average wins.
AverageFirstNonzero ==
    phase = "returned" =>
        /\ Eq(result.combined_batting.Ave, FirstAverage("batting"))
        /\ Eq(result.combined_bowling.Ave, FirstAverage("bowling"))
        /\ 1 \in WithAverage("batting") =>
               Eq(result.combined_batting.Ave,
                  clean_numeric_value(arg.data["batting"]["Test"].Ave))

\* a Test average of 40.5 is kept although the ODI row has 25.75
TestAverageWins ==
    /\ phase = "returned"
    /\ WithAverage("batting") = {1, 2}
    /\ arg.data["batting"]["Test"].Ave = Str(<<"4", "0", ".", "5">>)
    /\ arg.data["batting"]["ODI"].Ave = Str(<<"2", "5", ".", "7", "5", "*">>)
    /\ result.combined_batting.Ave = ParseFloat(<<"4", "0", ".", "5">>)

\* a Span cell that is there and not empty
HasSpan(r) ==
    /\ "Span" \in DOMAIN r
    /\ r.Span.k \in {"str", "num"}
    /\ r.Span.s # <<>>

WithSpan ==
    {i \in 1..3 : /\ DOMAIN arg.data["batting"][MergeOrder[i]] # {}
                  /\ HasSpan(arg.data["batting"][MergeOrder[i]])}

FirstSpan ==
    IF WithSpan = {} THEN EmptyStr
    ELSE arg.data["batting"][MergeOrder[
             CHOOSE i \in WithSpan : \A j \in WithSpan : i <= j]].Span

\* C9: the Span the era is derived from is the Span of the first format in
\* the order Test, ODI, T20 whose batting row has a nonempty Span; a row
\* whose Span is absent or empty (a missing cell read as NaN included) does
\* not keep a later format's Span from being used.
SpanFirstNonempty ==
    (phase = "returned" /\ ~result.skip) =>
        result.player_obj.era = determine_era(FirstSpan)

-----------------------------------------------------------------------------
(* Properties of the pipeline.                                             *)

\* the records of the players, in insertion order, that did not raise and
\* were not skipped
SurvivorRecords ==
    LET locals == [n \in DOMAIN players_data |->
                      ProcessPlayer(n, players_data[n])]
        survivors == SelectSeq(order, LAMBDA n :
                         n \notin failed /\ ~locals[n].skip)
    IN [i \in DOMAIN survivors |-> locals[survivors[i]].player_obj]

\* C4: the returned list is in non-increasing order of runs + wickets * 50,
\* and records of equal key are in the order in which their players were
\* first inserted into the accumulator map.
SortedStable ==
    phase = "done" =>
        LET n == Len(final_players)
            inserted == SurvivorRecords
        IN /\ n = Len(inserted)
           /\ \A i \in 1..(n - 1) :
                  Ge(SortKey(final_players[i]), SortKey(final_players[i + 1]))
           /\ \E pi \in [1..n -> 1..n] :
                  /\ \A i, j \in 1..n : i # j => pi[i] # pi[j]
                  /\ \A i \in 1..n : final_players[i] = inserted[pi[i]]
                  /\ \A i, j \in 1..n :
                         (i < j /\ Eq(SortKey(final_players[i]),
                                      SortKey(final_players[j])))
                         => pi[i] < pi[j]

\* two different records of equal key are returned in insertion order
TieKeepsInsertionOrder ==
    /\ phase = "done"
    /\ Len(final_players) = 2
    /\ Eq(SortKey(final_players[1]), SortKey(final_players[2]))
    /\ final_players[1] # final_players[2]
    /\ Len(order) = 2
    /\ final_players[1].name = CleanName(order[1])
    /\ final_players[2].name = CleanName(order[2])

\* what process_cricket_data returns for the accumulators pd inserted in the
\* order ord, when no player raises
PipelineOutput(pd, ord) ==
    LET locals == [n \in DOMAIN pd |-> ProcessPlayer(n, pd[n])]
        kept == SelectSeq(ord, LAMBDA n : ~locals[n].skip)
    IN SortDesc([i \in DOMAIN kept |-> locals[kept[i]].player_obj])

\* C5: when the processing of a player raises, that player only is left out:
\* the returned list is the one of a run whose input does not hold the
\* failing players at all.
FailureIsolation ==
    phase = "done" =>
        final_players =
            PipelineOutput([n \in DOMAIN players_data \ failed |->
                               players_data[n]],
                           SelectSeq(order, LAMBDA n : n \notin failed))

\* the first player raised and a later player is in the returned list
FailedFirstOtherReturned ==
    /\ phase = "done"
    /\ Len(order) = 2
    /\ failed = {order[1]}
    /\ Len(final_players) = 1
    /\ final_players[1].name = CleanName(order[2])

\* C6: a source that is missing or cannot be read adds no row for its
\* (category, format), leaves the rows of the other sources as they are, and
\* the loop goes on with the next source; both cases leave the same state
\* behind, so the same list is returned.
SkippedSourceIsolation ==
    [][(phase = "open" /\ lastEvent' \in {"file_not_found", "file_error"}) =>
          /\ players_data' = players_data
          /\ order' = order
          /\ \A n \in DOMAIN players_data' :
                 DOMAIN players_data'[n][SourceCategory(cur)]
                                        [SourceFormat(cur)] = {}
          /\ cur' = cur + 1
          /\ phase' = (IF cur = NumSources THEN "players" ELSE "open")
          /\ <<df', nrows', idx', failed', final_players'>>
                 = <<df, nrows, idx, failed, final_players>>]_vars

\* a source could not be read after rows of earlier sources were stored, and
\* the loop stands at the next source
UnreadableAfterRows ==
    /\ phase = "open"
    /\ lastEvent = "file_error"
    /\ cur > 1
    /\ DOMAIN players_data # {}

\* C10: the accumulators are keyed by the trimmed player name and hold at
\* most one row per (category, format): a row replaces the earlier row of
\* the same trimmed name in the same source, and a row whose name is empty
\* or "nan" creates no accumulator and changes none.
OneRowPerTrimmedName ==
    [][(phase = "rows" /\ nrows' = nrows + 1) =>
          LET r == df'[Len(df')]
              key == Strip(PyStr(r.Player))
              cat == SourceCategory(cur)
              fmt == SourceFormat(cur)
          IN /\ \A n \in DOMAIN players_data' :
                    n = Strip(n) /\ n # <<>> /\ n # <<"n", "a", "n">>
             /\ IF key = <<>> \/ key = <<"n", "a", "n">>
                THEN players_data' = players_data /\ order' = order
                ELSE /\ DOMAIN players_data' = DOMAIN players_data \cup {key}
                     /\ players_data'[key][cat][fmt] = r
                     /\ \A n \in DOMAIN players_data',
                           c \in {"batting", "bowling", "fielding"},
                           f \in {"ODI", "T20", "Test"} :
                            <<n, c, f>> # <<key, cat, fmt>> =>
                                players_data'[n][c][f] =
                                    (IF n \in DOMAIN players_data
                                     THEN players_data[n][c][f] ELSE NoRow)]_vars

\* the second row of a file, read with blanks around the name, has replaced
\* the first row of the same player
RowReplacedUnderTrimmedName ==
    /\ phase = "rows"
    /\ Len(df) = 2
    /\ df[1] # df[2]
    /\ df[1].Player = Str(<<"A", " ", "(", "A", "U", "S", ")">>)
    /\ df[2].Player = Str(<<"\f", "A", " ", "(", "A", "U", "S", ")", " ">>)
    /\ DOMAIN players_data = {<<"A", " ", "(", "A", "U", "S", ")">>}
    /\ players_data[<<"A", " ", "(", "A", "U", "S", ")">>][SourceCategory(cur)][SourceFormat(cur)] = df[2]

=============================================================================
